---- MODULE Spec2Model ----
(***************************************************************************)
(* Template / clone support of hcsshim: the persisted template store       *)
(* (internal/clone), the network namespace setup for templates and clones  *)
(* (internal/hcsoci/network.go) and the template lifecycle                 *)
(* (cmd/containerd-shim-runhcs-v1/clone.go, internal/uvm/clone.go).        *)
(***************************************************************************)
EXTENDS Integers, Sequences, FiniteSets, TLC

\* ------------------------------------------------------------------ bounds

\* Number of store calls a caller issues in one run.
MaxCalls == 5

\* Number of endpoints the provider knows.
MaxEndpoints == 2

\* Number of saveAsTemplate runs on the guest.
MaxRuns == 2

\* ------------------------------------------------------------- data model

\* Guest identities (UVMID), the keys of the registry.
IDs == {"vm-123", "vm-456"}

\* Concrete types gob.Register is called with in init().
RegisteredKinds == {"VSMBShare", "SCSIMount"}

\* uvm.Cloneable values: the concrete type and its exported configuration.
shareA == [kind |-> "VSMBShare", field |-> 1]
mountB == [kind |-> "SCSIMount", field |-> 0]
otherC == [kind |-> "Unregistered", field |-> 1]

\* Resource lists the callers hand to SaveTemplateConfig.
ResourceLists == {<<>>, <<shareA, mountB>>, <<otherC>>}

\* uvm.UVMTemplateConfig
UVMTemplateConfig(id, res) == [UVMID |-> id, Resources |-> res]

NoConfig == [UVMID |-> "", Resources |-> <<>>]

\* ------------------------------------------------------------------ codec

\* Wire numbers of the gob stream: a guest id, a concrete type name.
IdCode(id) == CASE id = "vm-123" -> 1 [] id = "vm-456" -> 2 [] OTHER -> 3

CodeId(c) == CASE c = 1 -> "vm-123" [] c = 2 -> "vm-456" [] OTHER -> "?"

KindTag(k) == CASE k = "VSMBShare" -> 1 [] k = "SCSIMount" -> 2 [] OTHER -> 3

TagKind(t) == CASE t = 1 -> "VSMBShare" [] t = 2 -> "SCSIMount" [] OTHER -> "Unregistered"

\* One interface value: the type name, then the struct's non-zero exported
\* fields as (field delta, value), then the struct terminator 0.
encodeResource(r) ==
  <<KindTag(r.kind)>> \o (IF r.field = 0 THEN <<>> ELSE <<1, r.field>>) \o <<0>>

RECURSIVE encodeResources_reversed(_)
encodeResources_reversed(rs) ==
  IF rs = <<>> THEN <<>>
  ELSE encodeResources_reversed(Tail(rs)) \o encodeResource(Head(rs))

RECURSIVE encodeResources(_)
encodeResources(rs) ==
  IF rs = <<>> THEN <<>>
  ELSE encodeResource(Head(rs)) \o encodeResources(Tail(rs))

\* gob.Encoder.Encode of a *UVMTemplateConfig: zero-valued fields (an empty id,
\* an empty slice) are not sent; a field is sent as its delta to the previous
\* field number; an interface value of an unregistered type is an error.
encodeTemplateConfig(utc) ==
  IF \E i \in DOMAIN utc.Resources : utc.Resources[i].kind \notin RegisteredKinds
  THEN [err |-> "EncodeError", bytes |-> <<>>]
  ELSE LET idPart  == IF utc.UVMID = "" THEN <<>> ELSE <<1, IdCode(utc.UVMID)>>
           delta   == IF utc.UVMID = "" THEN 2 ELSE 1
           resPart == IF utc.Resources = <<>> THEN <<>>
                      ELSE <<delta, Len(utc.Resources)>> \o encodeResources(utc.Resources)
       IN [err |-> "", bytes |-> idPart \o resPart \o <<0>>]

\* Reads n interface values from position pos of the stream b.
RECURSIVE decodeResources(_, _, _)
decodeResources(b, pos, n) ==
  IF n = 0 THEN [ok |-> TRUE, out |-> <<>>, pos |-> pos]
  ELSE IF pos + 1 > Len(b) \/ TagKind(b[pos]) \notin RegisteredKinds
  THEN [ok |-> FALSE, out |-> <<>>, pos |-> pos]
  ELSE LET zero == b[pos + 1] = 0
           bad  == ~zero /\ (pos + 3 > Len(b) \/ b[pos + 1] # 1 \/ b[pos + 3] # 0)
           r    == [kind |-> TagKind(b[pos]), field |-> IF zero THEN 0 ELSE b[pos + 2]]
           rest == decodeResources(b, IF zero THEN pos + 2 ELSE pos + 4, n - 1)
       IN IF bad \/ ~rest.ok
          THEN [ok |-> FALSE, out |-> <<>>, pos |-> pos]
          ELSE [ok |-> TRUE, out |-> <<r>> \o rest.out, pos |-> rest.pos]

\* Reads the struct's fields from position pos on; fieldnum is the number of the
\* last field read (-1 at the start), utc the value decoded so far.
RECURSIVE decodeFields(_, _, _, _)
decodeFields(b, pos, fieldnum, utc) ==
  IF pos > Len(b) THEN [err |-> "DecodeError", utc |-> NoConfig]
  ELSE IF b[pos] = 0
  THEN (IF pos = Len(b) THEN [err |-> "", utc |-> utc]
        ELSE [err |-> "DecodeError", utc |-> NoConfig])
  ELSE LET f == fieldnum + b[pos]
       IN IF f = 0 /\ pos + 1 <= Len(b)
          THEN decodeFields(b, pos + 2, f, [utc EXCEPT !.UVMID = CodeId(b[pos + 1])])
          ELSE IF f = 1 /\ pos + 1 <= Len(b)
          THEN LET rs == decodeResources(b, pos + 2, b[pos + 1])
               IN IF rs.ok
                  THEN decodeFields(b, rs.pos, f, [utc EXCEPT !.Resources = rs.out])
                  ELSE [err |-> "DecodeError", utc |-> NoConfig]
          ELSE [err |-> "DecodeError", utc |-> NoConfig]

\* gob.Decoder.Decode into a zero UVMTemplateConfig.
decodeTemplateConfig(encodedBytes) ==
  decodeFields(encodedBytes, 1, -1, NoConfig)

\* ------------------------------------------------------- registry (regstate)

\* No value under a key of the registry.
NoRecord == [present |-> FALSE, RawData |-> <<>>, Stored |-> FALSE]

\* The value serialised under a key: every field of persistedUVMConfig as it is
\* at the time of the write.
Persisted(puc) == [present |-> TRUE, RawData |-> puc.RawData, Stored |-> puc.Stored]

\* sk.Get(ID, configKey, &puc): NotFound when the key is absent, else every
\* field of puc is overwritten by the persisted value.
regstateGet(reg, ID, puc) ==
  IF ~reg[ID].present THEN [err |-> "NotFound", puc |-> puc]
  ELSE [err |-> "", puc |-> [RawData |-> reg[ID].RawData, Stored |-> reg[ID].Stored]]

\* sk.Create(ID, configKey, puc): fails when the key exists.
regstateCreate(reg, ID, puc) ==
  IF reg[ID].present THEN [err |-> "AlreadyExists", reg |-> reg]
  ELSE [err |-> "", reg |-> [reg EXCEPT ![ID] = Persisted(puc)]]

\* sk.Set(ID, configKey, puc): overwrites.
regstateSet(reg, ID, puc) ==
  [err |-> "", reg |-> [reg EXCEPT ![ID] = Persisted(puc)]]

\* sk.Remove(ID): NotFound when the key is absent.
regstateRemove(reg, ID) ==
  IF ~reg[ID].present THEN [err |-> "NotFound", reg |-> reg]
  ELSE [err |-> "", reg |-> [reg EXCEPT ![ID] = NoRecord]]

IsNotFoundError(err) == err = "NotFound"

\* --------------------------------------------------- persisted template store

loadPersistedUVMConfig(reg, ID) ==
  LET puc == [RawData |-> <<>>, Stored |-> TRUE]
      got == regstateGet(reg, ID, puc)
  IN IF got.err # "" THEN [err |-> got.err, puc |-> [RawData |-> <<>>, Stored |-> FALSE]]
     ELSE [err |-> "", puc |-> got.puc]

\* As storePersistedUVMConfig, with the dispatch on puc.Stored inverted.
storePersistedUVMConfig_inverted(reg, ID, puc) ==
  LET w == IF puc.Stored THEN regstateCreate(reg, ID, puc) ELSE regstateSet(reg, ID, puc)
  IN IF w.err # "" THEN [err |-> w.err, reg |-> reg, puc |-> puc]
     ELSE [err |-> "", reg |-> w.reg, puc |-> [puc EXCEPT !.Stored = TRUE]]

storePersistedUVMConfig(reg, ID, puc) ==
  LET w == IF puc.Stored THEN regstateSet(reg, ID, puc) ELSE regstateCreate(reg, ID, puc)
  IN IF w.err # "" THEN [err |-> w.err, reg |-> reg, puc |-> puc]
     ELSE [err |-> "", reg |-> w.reg, puc |-> [puc EXCEPT !.Stored = TRUE]]

\* As removePersistedUVMConfig, without the NotFound case of sk.Remove.
removePersistedUVMConfig_strict(reg, ID) ==
  LET r == regstateRemove(reg, ID)
  IN IF r.err # "" THEN [err |-> r.err, reg |-> reg] ELSE [err |-> "", reg |-> r.reg]

removePersistedUVMConfig(reg, ID) ==
  LET r == regstateRemove(reg, ID)
  IN IF r.err # ""
     THEN (IF IsNotFoundError(r.err) THEN [err |-> "", reg |-> reg]
           ELSE [err |-> r.err, reg |-> reg])
     ELSE [err |-> "", reg |-> r.reg]

\* The outcome of a call: kind is "ok" (nil error or a value), "err" (an error
\* returned as a value) or "panic" (the call did not return); decoded says
\* whether decodeTemplateConfig was invoked.
Result(kind, err, utc, decoded) ==
  [kind |-> kind, err |-> err, utc |-> utc, decoded |-> decoded]

\* As NewRecord, marked as stored already.
NewRecord_stored(encodedBytes) == [RawData |-> encodedBytes, Stored |-> TRUE]

\* The record SaveTemplateConfig builds from the encoded config.
NewRecord(encodedBytes) == [RawData |-> encodedBytes, Stored |-> FALSE]

\* As SaveTemplateConfig, without the load: the record is written over
\* whatever the registry holds.
SaveTemplateConfig_overwrite(reg, utc) ==
  LET e == encodeTemplateConfig(utc)
  IN IF e.err # ""
     THEN [res |-> Result("err", e.err, NoConfig, FALSE), reg |-> reg]
     ELSE LET st == storePersistedUVMConfig(reg, utc.UVMID, NewRecord_stored(e.bytes))
          IN IF st.err # ""
             THEN [res |-> Result("err", st.err, NoConfig, FALSE), reg |-> reg]
             ELSE [res |-> Result("ok", "", NoConfig, FALSE), reg |-> st.reg]

\* The load must fail with NotFound. When it does not, the error message is
\* built from err.Error(): with a record present err is nil and the call
\* panics with a nil dereference instead of returning.
SaveTemplateConfig(reg, utc) ==
  LET l == loadPersistedUVMConfig(reg, utc.UVMID)
  IN IF ~IsNotFoundError(l.err)
     THEN (IF l.err = ""
           THEN [res |-> Result("panic", "nil pointer dereference", NoConfig, FALSE), reg |-> reg]
           ELSE [res |-> Result("err", "ShouldntExist", NoConfig, FALSE), reg |-> reg])
     ELSE LET e == encodeTemplateConfig(utc)
          IN IF e.err # ""
             THEN [res |-> Result("err", e.err, NoConfig, FALSE), reg |-> reg]
             ELSE LET puc == NewRecord(e.bytes)
                      s   == storePersistedUVMConfig(reg, utc.UVMID, puc)
                  IN IF s.err # ""
                     THEN [res |-> Result("err", s.err, NoConfig, FALSE), reg |-> reg]
                     ELSE [res |-> Result("ok", "", NoConfig, FALSE), reg |-> s.reg]

\* As RemoveSavedTemplateConfig, returning nil without removing anything.
RemoveSavedTemplateConfig_noop(reg, ID) ==
  [res |-> Result("ok", "", NoConfig, FALSE), reg |-> reg]

RemoveSavedTemplateConfig(reg, ID) ==
  LET r == removePersistedUVMConfig(reg, ID)
  IN [res |-> Result(IF r.err = "" THEN "ok" ELSE "err", r.err, NoConfig, FALSE),
      reg |-> r.reg]

\* As FetchTemplateConfig, decoding the record before looking at the load error.
FetchTemplateConfig_decodeFirst(reg, ID) ==
  LET l == loadPersistedUVMConfig(reg, ID)
      d == decodeTemplateConfig(l.puc.RawData)
  IN IF d.err # ""
     THEN [res |-> Result("err", d.err, NoConfig, TRUE), reg |-> reg]
     ELSE IF l.err # ""
     THEN [res |-> Result("err", l.err, NoConfig, TRUE), reg |-> reg]
     ELSE [res |-> Result("ok", "", d.utc, TRUE), reg |-> reg]

FetchTemplateConfig(reg, ID) ==
  LET l == loadPersistedUVMConfig(reg, ID)
  IN IF l.err # ""
     THEN [res |-> Result("err", l.err, NoConfig, FALSE), reg |-> reg]
     ELSE LET d == decodeTemplateConfig(l.puc.RawData)
          IN IF d.err # ""
             THEN [res |-> Result("err", d.err, NoConfig, TRUE), reg |-> reg]
             ELSE [res |-> Result("ok", "", d.utc, TRUE), reg |-> reg]

\* ------------------------------------------- network namespace setup

\* Namespace ids the provider generates.
NSIDs == {"ns-1", "ns-2"}

\* hns.CLONING_DEFAULT_NETWORK_NAMESPACE_ID: the id every template and clone
\* sees, distinct from every id the provider generates.
CLONING_DEFAULT_NETWORK_NAMESPACE_ID == "ns-cloning-default"

EndpointIDs == 1..MaxEndpoints

\* Endpoint lists of a container spec: no endpoint twice.
EndpointLists ==
  {l \in UNION {[1..n -> EndpointIDs] : n \in 0..MaxEndpoints} :
     \A i, j \in DOMAIN l : i # j => l[i] # l[j]}

\* A namespace the provider does not have.
NoNamespace == [present |-> FALSE, endpoints |-> <<>>]

\* hns.HNSEndpoint: its id and its namespace reference.
HNSEndpoint(id, ns) == [Id |-> id, Namespace |-> ns]

\* A call made on the provider or on the guest: nsid is the namespace id
\* argument (for AddNetNSRaw the Id of the namespace object handed over), eps
\* the endpoint objects handed over.
NetCall(target, op, nsid, eps) == [target |-> target, op |-> op, nsid |-> nsid, eps |-> eps]

\* Which external call of an operation fails ("none": none does). Whether the
\* cleanup removal fails is a second input, removeFails; its error is only
\* logged (warned).
NetFailures ==
  {"none", "CreateNamespace", "AddNamespaceEndpoint", "GetNamespaceEndpoints",
   "GetHNSEndpointByID", "GetNamespaceByID", "AddNetNSRaw", "AddEndpointsToNS"}

\* hns.GetNamespaceEndpoints(netNS), then hns.GetHNSEndpointByID for each id.
GetNamespaceEndpoints(nss, eps, netNS, fail) ==
  LET q == NetCall("provider", "GetNamespaceEndpoints", netNS, <<>>)
  IN IF fail = "GetNamespaceEndpoints" \/ netNS \notin DOMAIN nss \/ ~nss[netNS].present
     THEN [err |-> "GetNamespaceEndpoints", endpoints |-> <<>>, calls |-> <<q>>]
     ELSE LET ids == nss[netNS].endpoints
          IN IF fail = "GetHNSEndpointByID" /\ ids # <<>>
             THEN [err |-> "GetHNSEndpointByID", endpoints |-> <<>>, calls |-> <<q>>]
             ELSE [err |-> "",
                   endpoints |-> [i \in DOMAIN ids |-> HNSEndpoint(ids[i], eps[ids[i]])],
                   calls |-> <<q>>]

\* The id the guest is to see for the namespace.
NsidInsideUVM_templateOnly(nsid, isTemplate, isClone) ==
  IF isTemplate THEN CLONING_DEFAULT_NETWORK_NAMESPACE_ID ELSE nsid

NsidInsideUVM(nsid, isTemplate, isClone) ==
  IF isTemplate \/ isClone THEN CLONING_DEFAULT_NETWORK_NAMESPACE_ID ELSE nsid

\* As AddNamespace, for clones too.
AddNamespace_always(nsid, nsidInsideUVM, isTemplate, isClone, fail) ==
  LET getNS == NetCall("provider", "GetNamespaceByID", nsid, <<>>)
      addNS == NetCall("guest", "AddNetNSRaw", IF isTemplate THEN nsidInsideUVM ELSE nsid, <<>>)
  IN IF fail = "GetNamespaceByID" THEN [err |-> fail, calls |-> <<getNS>>]
     ELSE IF fail = "AddNetNSRaw" THEN [err |-> fail, calls |-> <<getNS, addNS>>]
     ELSE [err |-> "", calls |-> <<getNS, addNS>>]

\* As AddNamespace, with the template case decided before the clone case.
AddNamespace_templateFirst(nsid, nsidInsideUVM, isTemplate, isClone, fail) ==
  IF isClone /\ ~isTemplate THEN [err |-> "", calls |-> <<>>]
  ELSE AddNamespace_always(nsid, nsidInsideUVM, isTemplate, isClone, fail)

\* As AddNamespace, going on when the namespace hot-add fails.
AddNamespace_ignoreErr(nsid, nsidInsideUVM, isTemplate, isClone, fail) ==
  IF isClone THEN [err |-> "", calls |-> <<>>]
  ELSE LET r == AddNamespace_always(nsid, nsidInsideUVM, isTemplate, isClone, fail)
       IN IF r.err = "AddNetNSRaw" THEN [err |-> "", calls |-> r.calls] ELSE r

\* Unless the guest is a clone: the namespace object is fetched from the
\* provider by the real id (the object carries that id), a template's object
\* gets the id the guest is to see, and the object is hot-added.
AddNamespace(nsid, nsidInsideUVM, isTemplate, isClone, fail) ==
  IF isClone THEN [err |-> "", calls |-> <<>>]
  ELSE LET getNS == NetCall("provider", "GetNamespaceByID", nsid, <<>>)
           hcnNamespaceId == IF isTemplate THEN nsidInsideUVM ELSE nsid
           addNS == NetCall("guest", "AddNetNSRaw", hcnNamespaceId, <<>>)
       IN IF fail = "GetNamespaceByID" THEN [err |-> fail, calls |-> <<getNS>>]
          ELSE IF fail = "AddNetNSRaw" THEN [err |-> fail, calls |-> <<getNS, addNS>>]
          ELSE [err |-> "", calls |-> <<getNS, addNS>>]

\* As OverrideEndpoints, for every kind of guest.
OverrideEndpoints_always(endpoints, nsidInsideUVM, isTemplate, isClone) ==
  [i \in DOMAIN endpoints |-> HNSEndpoint(endpoints[i].Id, nsidInsideUVM)]

\* For a clone or a template, the namespace reference of every endpoint is
\* replaced by nsidInsideUVM.
OverrideEndpoints(endpoints, nsidInsideUVM, isTemplate, isClone) ==
  IF isClone \/ isTemplate
  THEN [i \in DOMAIN endpoints |-> HNSEndpoint(endpoints[i].Id, nsidInsideUVM)]
  ELSE endpoints

\* As AddEndpoints, returning the error of the cleanup when it fails too.
AddEndpoints_cleanupError(nsidInsideUVM, endpoints, fail, removeFails) ==
  LET addEPs == NetCall("guest", "AddEndpointsToNS", nsidInsideUVM, endpoints)
      remove == NetCall("guest", "RemoveNetNS", nsidInsideUVM, <<>>)
  IN IF fail = "AddEndpointsToNS"
     THEN [err |-> IF removeFails THEN "RemoveNetNS" ELSE fail,
           calls |-> <<addEPs, remove>>, warned |-> removeFails]
     ELSE [err |-> "", calls |-> <<addEPs>>, warned |-> FALSE]

\* The endpoints are hot-added under nsidInsideUVM; when that fails the
\* namespace is removed from the guest, a failure of the removal is logged,
\* and the hot-add error is returned.
AddEndpoints(nsidInsideUVM, endpoints, fail, removeFails) ==
  LET addEPs == NetCall("guest", "AddEndpointsToNS", nsidInsideUVM, endpoints)
      remove == NetCall("guest", "RemoveNetNS", nsidInsideUVM, <<>>)
  IN IF fail = "AddEndpointsToNS"
     THEN [err |-> fail, calls |-> <<addEPs, remove>>, warned |-> removeFails]
     ELSE [err |-> "", calls |-> <<addEPs>>, warned |-> FALSE]

SetupNetworkNamespace(nss, eps, nsid, isTemplate, isClone, fail, removeFails) ==
  LET nsidInsideUVM == NsidInsideUVM(nsid, isTemplate, isClone)
      g == GetNamespaceEndpoints(nss, eps, nsid, fail)
  IN IF g.err # "" THEN [err |-> g.err, calls |-> g.calls, warned |-> FALSE]
     ELSE
       LET n == AddNamespace(nsid, nsidInsideUVM, isTemplate, isClone, fail)
       IN IF n.err # "" THEN [err |-> n.err, calls |-> g.calls \o n.calls, warned |-> FALSE]
          ELSE
            LET endpoints == OverrideEndpoints(g.endpoints, nsidInsideUVM, isTemplate, isClone)
                a == AddEndpoints(nsidInsideUVM, endpoints, fail, removeFails)
            IN [err |-> a.err, calls |-> g.calls \o n.calls \o a.calls, warned |-> a.warned]

\* hns.CreateNamespace() answers netID; the endpoints of the spec are added to
\* it one by one, up to the first failure (the failAt-th endpoint).
createNetworkNamespace(nss, eps, netID, endpointList, fail, failAt) ==
  IF fail = "CreateNamespace"
  THEN [err |-> fail, nss |-> nss, eps |-> eps, netNS |-> "", createdNetNS |-> FALSE]
  ELSE LET stop  == fail = "AddNamespaceEndpoint" /\ failAt \in DOMAIN endpointList
           added == IF stop THEN SubSeq(endpointList, 1, failAt - 1) ELSE endpointList
       IN [err |-> IF stop THEN fail ELSE "",
           nss |-> [nss EXCEPT ![netID] = [present |-> TRUE, endpoints |-> added]],
           eps |-> [e \in EndpointIDs |->
                      IF \E i \in DOMAIN added : added[i] = e THEN netID ELSE eps[e]],
           netNS |-> netID, createdNetNS |-> TRUE]

\* ------------------------------------------------------- template lifecycle

\* An empty attachment slot (a nil pointer).
Nil == [kind |-> "nil", field |-> 0]

NonNil(slots) == SelectSeq(slots, LAMBDA r : r # Nil)

RECURSIVE Flatten(_)
Flatten(locations) ==
  IF locations = <<>> THEN <<>> ELSE Head(locations) \o Flatten(Tail(locations))

\* As GenerateTemplateConfig, with the SCSI mounts first.
GenerateTemplateConfig_mountsFirst(uvm) ==
  UVMTemplateConfig(uvm.id,
                    NonNil(Flatten(uvm.scsiLocations)) \o NonNil(uvm.vsmbDirShares)
                      \o NonNil(uvm.vsmbFileShares))

\* The guest's id, then its directory shares, its file shares and its SCSI
\* mounts (controller by controller), empty slots skipped.
GenerateTemplateConfig(uvm) ==
  UVMTemplateConfig(uvm.id,
                    NonNil(uvm.vsmbDirShares) \o NonNil(uvm.vsmbFileShares)
                      \o NonNil(Flatten(uvm.scsiLocations)))

\* The steps of saveAsTemplate, in the order of the code; the last two are the
\* body of UtilityVM.SaveAsTemplate.
Steps == <<"RemoveAllNICs", "CloseGCSConnection", "SaveTemplateConfig", "Pause", "Save">>

\* As UtilitySaveAsTemplateNext, going on to save when the pause fails.
UtilitySaveAsTemplateNext_ignorePause(step, failed) ==
  IF step = "Pause" THEN "Save" ELSE "return"

\* UtilityVM.SaveAsTemplate: where control goes after the step: pause, then
\* save; the first error is returned.
UtilitySaveAsTemplateNext(step, failed) ==
  IF failed THEN "return"
  ELSE IF step = "Pause" THEN "Save" ELSE "return"

\* saveAsTemplate: where control goes after the step: each step's error is
\* returned at once, else the next step is called.
saveAsTemplateNext(step, failed) ==
  IF step \in {"Pause", "Save"} THEN UtilitySaveAsTemplateNext(step, failed)
  ELSE IF failed THEN "return"
  ELSE IF step = "RemoveAllNICs" THEN "CloseGCSConnection"
  ELSE IF step = "CloseGCSConnection" THEN "SaveTemplateConfig"
  ELSE "Pause"

\* ------------------------------------------------------------------- state

VARIABLES
  registry,       \* the registry under configRoot: guest id -> persisted value
  regBefore,      \* the registry as it was when the last call was made
  history,        \* the calls issued so far, in issue order, with their outcomes
  hnsNamespaces,  \* the provider's namespaces: id -> its endpoint ids
  hnsEndpoints,   \* the provider's endpoints: id -> its namespace reference
  netLast,        \* the last network operation: its arguments, calls and error
  host,           \* the guest: its id, attachments, NICs, GCS connection, state
  pc,             \* saveAsTemplate: the step to call next, or "idle"
  steps,          \* the steps the current (or last) run has called, with outcomes
  ret,            \* what the last run returned: "ok", "err", "panic", or "none"
  runs,           \* the number of runs started
  captured,       \* the last GenerateTemplateConfig call: the guest and the config
  attach,         \* the last CloneContainer call: its arguments and outcome
  unit,           \* the last call made directly on the store layer
  held,           \* the in-memory record a caller holds for each guest id
  succeeded,      \* the guest ids with a successful store since their last removal
  conc            \* concurrent SaveTemplateConfig calls: each caller's position

storeVars == <<registry, regBefore, history>>

netVars == <<hnsNamespaces, hnsEndpoints, netLast>>

lifeVars == <<host, pc, steps, ret, runs, captured, attach>>

vars == <<registry, regBefore, history, hnsNamespaces, hnsEndpoints, netLast,
          host, pc, steps, ret, runs, captured, attach, unit, held, succeeded, conc>>

unitVars == <<unit, held, succeeded>>

Call(op, id, arg, res) == [op |-> op, id |-> id, arg |-> arg, res |-> res]

StoreInit ==
  /\ registry = [id \in IDs |-> NoRecord]
  /\ regBefore = registry
  /\ history = <<>>

SaveCall(id, rs) ==
  LET r == SaveTemplateConfig(registry, UVMTemplateConfig(id, rs))
  IN /\ Len(history) < MaxCalls
     /\ registry' = r.reg
     /\ regBefore' = registry
     /\ history' = Append(history, Call("save", id, rs, r.res))
     /\ UNCHANGED <<netVars, lifeVars, unitVars, conc>>

FetchCall(id) ==
  LET r == FetchTemplateConfig(registry, id)
  IN /\ Len(history) < MaxCalls
     /\ registry' = r.reg
     /\ regBefore' = registry
     /\ history' = Append(history, Call("fetch", id, <<>>, r.res))
     /\ UNCHANGED <<netVars, lifeVars, unitVars, conc>>

RemoveCall(id) ==
  LET r == RemoveSavedTemplateConfig(registry, id)
  IN /\ Len(history) < MaxCalls
     /\ registry' = r.reg
     /\ regBefore' = registry
     /\ history' = Append(history, Call("remove", id, <<>>, r.res))
     /\ UNCHANGED <<netVars, lifeVars, unitVars, conc>>

NetOp(op, nsid, isTemplate, isClone, fail, calls, err, warned) ==
  [op |-> op, nsid |-> nsid, isTemplate |-> isTemplate, isClone |-> isClone,
   fail |-> fail, calls |-> calls, err |-> err, warned |-> warned]

NetInit ==
  /\ hnsNamespaces = [n \in NSIDs |-> NoNamespace]
  /\ hnsEndpoints = [e \in EndpointIDs |-> ""]
  /\ netLast = NetOp("none", "", FALSE, FALSE, "none", <<>>, "", FALSE)

CreateNetworkNamespaceCall(netID, endpointList, fail, failAt) ==
  LET r == createNetworkNamespace(hnsNamespaces, hnsEndpoints, netID, endpointList, fail, failAt)
  IN /\ ~hnsNamespaces[netID].present
     /\ hnsNamespaces' = r.nss
     /\ hnsEndpoints' = r.eps
     /\ netLast' = NetOp("create", r.netNS, FALSE, FALSE, fail, <<>>, r.err, FALSE)
     /\ UNCHANGED <<storeVars, lifeVars, unitVars, conc>>

SetupNetworkNamespaceCall(nsid, isTemplate, isClone, fail, removeFails) ==
  LET r == SetupNetworkNamespace(hnsNamespaces, hnsEndpoints, nsid, isTemplate, isClone,
                                 fail, removeFails)
  IN /\ netLast' = NetOp("setup", nsid, isTemplate, isClone, fail, r.calls, r.err, r.warned)
     /\ UNCHANGED <<hnsNamespaces, hnsEndpoints>>
     /\ UNCHANGED <<storeVars, lifeVars, unitVars, conc>>

NetNext ==
  \/ \E netID \in NSIDs, l \in EndpointLists, failAt \in 1..MaxEndpoints,
        fail \in {"none", "CreateNamespace", "AddNamespaceEndpoint"} :
       CreateNetworkNamespaceCall(netID, l, fail, failAt)
  \/ \E nsid \in NSIDs, isTemplate \in BOOLEAN, isClone \in BOOLEAN,
        fail \in NetFailures \ {"CreateNamespace", "AddNamespaceEndpoint"},
        removeFails \in BOOLEAN :
       SetupNetworkNamespaceCall(nsid, isTemplate, isClone, fail, removeFails)

StoreNext ==
  \/ \E id \in IDs, rs \in ResourceLists : SaveCall(id, rs)
  \/ \E id \in IDs : FetchCall(id)
  \/ \E id \in IDs : RemoveCall(id)

\* Attachments of the guest: slots of directory shares, file shares, and SCSI
\* controllers with their slots.
ShareSlots == {<<>>, <<shareA>>, <<Nil, shareA>>}

ScsiLocations == {<<<<>>>>, <<<<Nil, mountB>>, <<mountB>>>>}

\* A running guest: NICs attached, the GCS connection open.
Hosts ==
  [id : IDs, vsmbDirShares : ShareSlots, vsmbFileShares : {<<>>, <<shareA>>},
   scsiLocations : ScsiLocations, nics : {2}, gcs : {TRUE}, state : {"Running"}]

\* A guest without attachments.
BareHost ==
  [id |-> "vm-123", vsmbDirShares |-> <<>>, vsmbFileShares |-> <<>>,
   scsiLocations |-> <<<<>>>>, nics |-> 2, gcs |-> TRUE, state |-> "Running"]

\* Container ids, and the errors the channel answers ("": none).
ContainerIDs == {"c-1", "c-2"}

ChannelErrors == {"", "bridge closed"}

\* No container handle, and the handle the channel answers for a container.
NoContainer == [valid |-> FALSE, id |-> ""]

ChannelContainer(id) == [valid |-> TRUE, id |-> id]

\* A CloneContainer call: whether uvm.gc was set, the container id, the
\* channel's answer, and the outcome: the handle, the error (errID and cause
\* are the container id and the channel error its text carries), and the
\* requests made on the channel.
Attached(gc, id, gcErr, container, err, errID, cause, requests) ==
  [gc |-> gc, id |-> id, gcErr |-> gcErr, container |-> container, err |-> err,
   errID |-> errID, cause |-> cause, requests |-> requests]

\* As CloneContainer, without the check of uvm.gc.
CloneContainer_noCheck(gc, id, gcErr) ==
  IF gcErr # ""
  THEN Attached(gc, id, gcErr, NoContainer, "failed to clone container", id, gcErr, <<id>>)
  ELSE Attached(gc, id, gcErr, ChannelContainer(id), "", "", "", <<id>>)

\* UtilityVM.CloneContainer: gc says whether uvm.gc is set, gcErr is the error
\* uvm.gc.CloneContainer answers.
CloneContainer(gc, id, gcErr) ==
  IF ~gc
  THEN Attached(gc, id, gcErr, NoContainer,
                "clone container cannot work without external GCS connection", "", "", <<>>)
  ELSE IF gcErr # ""
  THEN Attached(gc, id, gcErr, NoContainer, "failed to clone container", id, gcErr, <<id>>)
  ELSE Attached(gc, id, gcErr, ChannelContainer(id), "", "", "", <<id>>)

LifeInit(hosts) ==
  /\ host \in hosts
  /\ pc = "idle"
  /\ steps = <<>>
  /\ ret = "none"
  /\ runs = 0
  /\ captured = [called |-> FALSE, uvm |-> BareHost, utc |-> NoConfig]
  /\ attach = Attached(FALSE, "", "", NoContainer, "", "", "", <<>>)

\* No load or store made yet, no concurrent caller.
\* The zero persistedUVMConfig, and a caller's pointer to a record: nil (has
\* is FALSE) or a record and where it came from ("new", "load" or "store").
ZeroRecord == [RawData |-> <<>>, Stored |-> FALSE]

Held(has, puc, from) == [has |-> has, puc |-> puc, from |-> from]

NoHeld == Held(FALSE, ZeroRecord, "")

\* A call of the store layer: the operation, its id, the in-memory record before
\* and after, the persisted record before, and the error.
UnitCall(op, id, before, after, was, err) ==
  [op |-> op, id |-> id, before |-> before, after |-> after, was |-> was, err |-> err]

\* A caller inside SaveTemplateConfig: the statement it is at ("load", "encode",
\* "store" or "done"), its argument, the record it has built, and what it
\* returned ("none" while it runs).
Caller(at, utc, puc, res, err) ==
  [at |-> at, utc |-> utc, puc |-> puc, ret |-> res, err |-> err]

Callers == {1, 2}

IdleInit ==
  /\ unit = UnitCall("none", "", NoHeld, NoHeld, NoRecord, "")
  /\ held = [id \in IDs |-> NoHeld]
  /\ succeeded = {}
  /\ conc = [id |-> "", callers |-> <<>>]

Step(name, failed) == [step |-> name, failed |-> failed]

\* The caller starts saveAsTemplate(ctx, host).
SaveAsTemplateBegin ==
  /\ pc = "idle"
  /\ runs < MaxRuns
  /\ runs' = runs + 1
  /\ pc' = Steps[1]
  /\ steps' = <<>>
  /\ ret' = "none"
  /\ UNCHANGED <<host, captured, attach, storeVars, netVars, unitVars, conc>>

\* Control after the step: the next step, or the return to the caller.
Advance(name, failed) ==
  LET next == saveAsTemplateNext(name, failed)
  IN /\ steps' = Append(steps, Step(name, failed))
     /\ pc' = IF next = "return" THEN "idle" ELSE next
     /\ ret' = IF next # "return" THEN "none" ELSE IF failed THEN "err" ELSE "ok"

\* host.RemoveAllNICs(ctx)
RemoveAllNICsStep(failed) ==
  /\ pc = "RemoveAllNICs"
  /\ host' = IF failed THEN host ELSE [host EXCEPT !.nics = 0]
  /\ Advance("RemoveAllNICs", failed)
  /\ UNCHANGED <<runs, captured, attach, storeVars, netVars, unitVars, conc>>

\* host.CloseGCSConnection()
CloseGCSConnectionStep(failed) ==
  /\ pc = "CloseGCSConnection"
  /\ host' = IF failed THEN host ELSE [host EXCEPT !.gcs = FALSE]
  /\ Advance("CloseGCSConnection", failed)
  /\ UNCHANGED <<runs, captured, attach, storeVars, netVars, unitVars, conc>>

\* clone.SaveTemplateConfig(ctx, host.GenerateTemplateConfig())
SaveTemplateConfigStep ==
  LET utc == GenerateTemplateConfig(host)
      r   == SaveTemplateConfig(registry, utc)
  IN /\ pc = "SaveTemplateConfig"
     /\ captured' = [called |-> TRUE, uvm |-> host, utc |-> utc]
     /\ registry' = r.reg
     /\ IF r.res.kind = "panic"
        THEN /\ steps' = Append(steps, Step("SaveTemplateConfig", TRUE))
             /\ pc' = "idle"
             /\ ret' = "panic"
        ELSE Advance("SaveTemplateConfig", r.res.kind # "ok")
     /\ UNCHANGED <<host, runs, attach, regBefore, history, netVars, unitVars, conc>>

\* uvm.hcsSystem.Pause(ctx); the compute system refuses it on a saved guest.
PauseStep(failed) ==
  /\ pc = "Pause"
  /\ host.state = "Saved" => failed
  /\ host' = IF failed THEN host ELSE [host EXCEPT !.state = "Paused"]
  /\ Advance("Pause", failed)
  /\ UNCHANGED <<runs, captured, attach, storeVars, netVars, unitVars, conc>>

\* uvm.hcsSystem.Save(ctx, hcsSaveOptions); refused on a saved guest as well.
SaveStep(failed) ==
  /\ pc = "Save"
  /\ host.state = "Saved" => failed
  /\ host' = IF failed THEN host ELSE [host EXCEPT !.state = "Saved"]
  /\ Advance("Save", failed)
  /\ UNCHANGED <<runs, captured, attach, storeVars, netVars, unitVars, conc>>

\* host.CloneContainer(ctx, id), between runs of saveAsTemplate.
CloneContainerCall(id, gcErr) ==
  /\ pc = "idle"
  /\ attach' = CloneContainer(host.gcs, id, gcErr)
  /\ UNCHANGED <<host, pc, steps, ret, runs, captured, storeVars, netVars, unitVars, conc>>

\* clone.RemoveSavedTemplateConfig(host.id), between runs of saveAsTemplate.
LifeRemove ==
  LET r == RemoveSavedTemplateConfig(registry, host.id)
  IN /\ pc = "idle"
     /\ registry' = r.reg
     /\ UNCHANGED <<regBefore, history, lifeVars, netVars, unitVars, conc>>

LifeNext ==
  \/ SaveAsTemplateBegin
  \/ LifeRemove
  \/ \E id \in ContainerIDs, gcErr \in ChannelErrors : CloneContainerCall(id, gcErr)
  \/ \E failed \in BOOLEAN : RemoveAllNICsStep(failed)
  \/ \E failed \in BOOLEAN : CloseGCSConnectionStep(failed)
  \/ SaveTemplateConfigStep
  \/ \E failed \in BOOLEAN : PauseStep(failed)
  \/ \E failed \in BOOLEAN : SaveStep(failed)

\* A caller builds a fresh record for id, as SaveTemplateConfig does.
UnitNew(id, rs) ==
  LET e == encodeTemplateConfig(UVMTemplateConfig(id, rs))
      h == Held(TRUE, NewRecord(e.bytes), "new")
  IN /\ e.err = ""
     /\ held' = [held EXCEPT ![id] = h]
     /\ unit' = UnitCall("New", id, held[id], h, registry[id], "")
     /\ UNCHANGED <<succeeded, storeVars, netVars, lifeVars, conc>>

\* loadPersistedUVMConfig(id): the caller holds the returned record.
UnitLoad(id) ==
  LET l == loadPersistedUVMConfig(registry, id)
      h == IF l.err = "" THEN Held(TRUE, l.puc, "load") ELSE NoHeld
  IN /\ held' = [held EXCEPT ![id] = h]
     /\ unit' = UnitCall("Load", id, held[id], h, registry[id], l.err)
     /\ UNCHANGED <<succeeded, storeVars, netVars, lifeVars, conc>>

\* storePersistedUVMConfig(id, puc) on the record the caller holds.
UnitStore(id) ==
  LET st == storePersistedUVMConfig(registry, id, held[id].puc)
      h  == Held(TRUE, st.puc, IF st.err = "" THEN "store" ELSE held[id].from)
  IN /\ held[id].has
     /\ registry' = st.reg
     /\ held' = [held EXCEPT ![id] = h]
     /\ succeeded' = IF st.err = "" THEN succeeded \cup {id} ELSE succeeded
     /\ unit' = UnitCall("Store", id, held[id], h, registry[id], st.err)
     /\ UNCHANGED <<regBefore, history, netVars, lifeVars, conc>>

\* removePersistedUVMConfig(id).
UnitRemove(id) ==
  LET r == removePersistedUVMConfig(registry, id)
  IN /\ registry' = r.reg
     /\ succeeded' = IF r.err = "" THEN succeeded \ {id} ELSE succeeded
     /\ unit' = UnitCall("Remove", id, held[id], held[id], registry[id], r.err)
     /\ UNCHANGED <<held, regBefore, history, netVars, lifeVars, conc>>

UnitNext ==
  \/ \E id \in IDs, rs \in ResourceLists : UnitNew(id, rs)
  \/ \E id \in IDs : UnitLoad(id)
  \/ \E id \in IDs : UnitStore(id)
  \/ \E id \in IDs : UnitRemove(id)

\* Two callers enter SaveTemplateConfig for the same guest id.
ConcBegin(id, rs1, rs2) ==
  /\ conc.id = ""
  /\ ~registry[id].present
  /\ conc' = [id |-> id,
              callers |-> <<Caller("load", UVMTemplateConfig(id, rs1), ZeroRecord, "none", ""),
                            Caller("load", UVMTemplateConfig(id, rs2), ZeroRecord, "none", "")>>]
  /\ UNCHANGED <<storeVars, netVars, lifeVars, unitVars>>

\* Caller i is done with the outcome res, or goes on to the statement at.
ConcMove(i, at, puc, res, err) ==
  conc' = [conc EXCEPT !.callers[i] = Caller(at, conc.callers[i].utc, puc, res, err)]

\* Caller i: loadPersistedUVMConfig and the test of its error.
ConcLoad(i) ==
  LET c == conc.callers[i]
      l == loadPersistedUVMConfig(registry, c.utc.UVMID)
  IN /\ conc.id # "" /\ c.at = "load"
     /\ IF IsNotFoundError(l.err) THEN ConcMove(i, "encode", c.puc, "none", "")
        ELSE IF l.err = "" THEN ConcMove(i, "done", c.puc, "panic", "nil pointer dereference")
        ELSE ConcMove(i, "done", c.puc, "err", "ShouldntExist")
     /\ UNCHANGED <<storeVars, netVars, lifeVars, unitVars>>

\* Caller i: encodeTemplateConfig and the record built from its bytes.
ConcEncode(i) ==
  LET c == conc.callers[i]
      e == encodeTemplateConfig(c.utc)
  IN /\ conc.id # "" /\ c.at = "encode"
     /\ IF e.err # "" THEN ConcMove(i, "done", c.puc, "err", e.err)
        ELSE ConcMove(i, "store", NewRecord(e.bytes), "none", "")
     /\ UNCHANGED <<storeVars, netVars, lifeVars, unitVars>>

\* Caller i: storePersistedUVMConfig; the registry write is one step.
ConcStore(i) ==
  LET c  == conc.callers[i]
      st == storePersistedUVMConfig(registry, c.utc.UVMID, c.puc)
  IN /\ conc.id # "" /\ c.at = "store"
     /\ registry' = st.reg
     /\ IF st.err # "" THEN ConcMove(i, "done", st.puc, "err", st.err)
        ELSE ConcMove(i, "done", st.puc, "ok", "")
     /\ UNCHANGED <<regBefore, history, netVars, lifeVars, unitVars>>

ConcNext ==
  \/ \E id \in IDs, rs1 \in ResourceLists, rs2 \in ResourceLists : ConcBegin(id, rs1, rs2)
  \/ \E i \in Callers : ConcLoad(i)
  \/ \E i \in Callers : ConcEncode(i)
  \/ \E i \in Callers : ConcStore(i)

Init == StoreInit /\ NetInit /\ LifeInit({BareHost}) /\ IdleInit

\* As Init, with any of the guests.
InitLife == StoreInit /\ NetInit /\ LifeInit(Hosts) /\ IdleInit

\* The store's callers.
SpecStore == Init /\ [][StoreNext]_vars

\* The network setup's callers.
SpecNet == Init /\ [][NetNext]_vars

\* The template lifecycle of one guest.
SpecLife == InitLife /\ [][LifeNext]_vars

\* The store layer called directly on in-memory records.
SpecUnit == Init /\ [][UnitNext]_vars

\* Two concurrent SaveTemplateConfig calls for one guest id.
SpecConc == Init /\ [][ConcNext]_vars

\* ------------------------------------------------- claims on the store

LastCall == history[Len(history)]

PrevCall == history[Len(history) - 1]

\* C1: when SaveTemplateConfig(cfg) succeeds for a guest id (which then had no
\* persisted record), an immediately following FetchTemplateConfig of that id
\* succeeds and returns a config with the same id and the same resources, in
\* the same order.
C1_SaveThenFetchRoundTrip ==
  (/\ Len(history) >= 2
   /\ PrevCall.op = "save" /\ PrevCall.res.kind = "ok"
   /\ LastCall.op = "fetch" /\ LastCall.id = PrevCall.id)
  => /\ LastCall.res.kind = "ok"
     /\ LastCall.res.utc.UVMID = PrevCall.id
     /\ LastCall.res.utc.Resources = PrevCall.arg

C1_Witness ==
  /\ Len(history) >= 2
  /\ PrevCall.op = "save" /\ PrevCall.res.kind = "ok"
  /\ PrevCall.arg = <<shareA, mountB>>
  /\ LastCall.op = "fetch" /\ LastCall.id = PrevCall.id
  /\ LastCall.res.utc.Resources = <<shareA, mountB>>

\* C2: SaveTemplateConfig for a guest id that already has a persisted record
\* returns an error as a value and leaves the persisted record unchanged.
C2_SaveExistingReturnsError ==
  (/\ Len(history) >= 1
   /\ LastCall.op = "save"
   /\ regBefore[LastCall.id].present)
  => /\ LastCall.res.kind = "err"
     /\ registry = regBefore

\* C3: RemoveSavedTemplateConfig always returns success; with no record for the
\* id the store is left unchanged, with a record exactly that record is deleted.
C3_RemoveIdempotent ==
  (Len(history) >= 1 /\ LastCall.op = "remove")
  => /\ LastCall.res.kind = "ok"
     /\ registry = [regBefore EXCEPT ![LastCall.id] = NoRecord]
     /\ (~regBefore[LastCall.id].present => registry = regBefore)

C3_Witness ==
  /\ Len(history) >= 3
  /\ history[Len(history) - 2].op = "save" /\ history[Len(history) - 2].res.kind = "ok"
  /\ PrevCall.op = "remove" /\ PrevCall.id = history[Len(history) - 2].id
  /\ LastCall.op = "remove" /\ LastCall.id = PrevCall.id
  /\ PrevCall.res.kind = "ok" /\ LastCall.res.kind = "ok"
  /\ ~registry[LastCall.id].present

\* C4: FetchTemplateConfig for a guest id with no persisted record fails with
\* the store's NotFound error and does not invoke the decoder.
C4_FetchUnknownIsNotFound ==
  (/\ Len(history) >= 1
   /\ LastCall.op = "fetch"
   /\ ~regBefore[LastCall.id].present)
  => /\ LastCall.res.kind = "err"
     /\ LastCall.res.err = "NotFound"
     /\ ~LastCall.res.decoded

C4_Witness ==
  /\ Len(history) >= 1
  /\ LastCall.op = "fetch"
  /\ ~regBefore[LastCall.id].present
  /\ LastCall.res.err = "NotFound"

\* The resource list of the most recent successful save of id in h that no
\* later remove of id follows, if there is one.
RECURSIVE LiveSave(_, _)
LiveSave(h, id) ==
  IF h = <<>> THEN [present |-> FALSE, rs |-> <<>>]
  ELSE LET c == h[Len(h)]
       IN IF c.id = id /\ c.op = "remove" THEN [present |-> FALSE, rs |-> <<>>]
          ELSE IF c.id = id /\ c.op = "save" /\ c.res.kind = "ok"
          THEN [present |-> TRUE, rs |-> c.arg]
          ELSE LiveSave(SubSeq(h, 1, Len(h) - 1), id)

\* The calls of the scenario on guest id, with the outcomes it states.
Scenario(id) ==
  << Call("save", id, <<shareA, mountB>>, Result("ok", "", NoConfig, FALSE)),
     Call("fetch", id, <<>>, Result("ok", "", UVMTemplateConfig(id, <<shareA, mountB>>), TRUE)),
     Call("remove", id, <<>>, Result("ok", "", NoConfig, FALSE)),
     Call("remove", id, <<>>, Result("ok", "", NoConfig, FALSE)),
     Call("fetch", id, <<>>, Result("err", "NotFound", NoConfig, FALSE)) >>

SameCalls(h, g) ==
  /\ Len(h) = Len(g)
  /\ \A i \in 1..Len(h) : h[i].op = g[i].op /\ h[i].id = g[i].id /\ h[i].arg = g[i].arg

\* C5: calls issued one at a time observe the earlier calls in issue order: a
\* fetch succeeds exactly when the most recent successful save of its id has not
\* been followed by a remove, and then returns that save's resources; the calls
\* save, fetch, remove, remove, fetch yield success, the saved list, success,
\* success, NotFound.
C5_CallsObserveIssueOrder ==
  /\ (Len(history) >= 1 /\ LastCall.op = "fetch") =>
       LET live == LiveSave(SubSeq(history, 1, Len(history) - 1), LastCall.id)
       IN /\ (LastCall.res.kind = "ok") <=> live.present
          /\ live.present => LastCall.res.utc.Resources = live.rs
          /\ ~live.present => LastCall.res.err = "NotFound"
  /\ \A id \in IDs : SameCalls(history, Scenario(id)) => history = Scenario(id)

C5_Witness == \E id \in IDs : history = Scenario(id)

\* ------------------------------------- claims on the network namespace setup

\* The calls of the last operation with the given target and operation.
CallsOf(target, ops) ==
  {i \in DOMAIN netLast.calls :
     netLast.calls[i].target = target /\ netLast.calls[i].op \in ops}

GuestCalls == CallsOf("guest", {"AddNetNSRaw", "AddEndpointsToNS", "RemoveNetNS"})

\* The endpoint objects the provider holds for the namespace nsid.
ProviderEndpoints(nsid) ==
  [i \in DOMAIN hnsNamespaces[nsid].endpoints |->
     HNSEndpoint(hnsNamespaces[nsid].endpoints[i],
                 hnsEndpoints[hnsNamespaces[nsid].endpoints[i]])]

\* The last setup got past both provider lookups and the namespace hot-add.
ReachedEndpointHotAdd ==
  netLast.err \notin {"GetNamespaceEndpoints", "GetHNSEndpointByID",
                      "GetNamespaceByID", "AddNetNSRaw"}

\* C6: in a setup for a template or a clone every identifier handed to the
\* guest (the hot-added namespace object's id, the namespace id of the endpoint
\* hot-add, each hot-added endpoint's namespace reference, the id of a cleanup
\* removal) is the reserved cloning constant, and every provider query by
\* namespace id uses the real id the caller passed.
C6_GuestSeesReservedIdProviderRealId ==
  (netLast.op = "setup" /\ (netLast.isTemplate \/ netLast.isClone))
  => /\ \A i \in GuestCalls :
          /\ netLast.calls[i].nsid = CLONING_DEFAULT_NETWORK_NAMESPACE_ID
          /\ \A j \in DOMAIN netLast.calls[i].eps :
               netLast.calls[i].eps[j].Namespace = CLONING_DEFAULT_NETWORK_NAMESPACE_ID
     /\ \A i \in CallsOf("provider", {"GetNamespaceEndpoints", "GetNamespaceByID"}) :
          netLast.calls[i].nsid = netLast.nsid

C6_Witness ==
  /\ netLast.op = "setup" /\ netLast.isClone /\ ~netLast.isTemplate
  /\ netLast.fail = "AddEndpointsToNS"
  /\ \E i \in CallsOf("guest", {"AddEndpointsToNS"}) :
       /\ Len(netLast.calls[i].eps) = MaxEndpoints
       /\ netLast.calls[i].nsid = CLONING_DEFAULT_NETWORK_NAMESPACE_ID
  /\ CallsOf("guest", {"RemoveNetNS"}) # {}
  /\ CallsOf("provider", {"GetNamespaceEndpoints"}) # {}

\* C7: a setup for a clone never fetches the namespace object from the provider
\* and never hot-adds a namespace; once the endpoints are looked up it issues the
\* endpoint hot-add, under the reserved constant and with every endpoint's
\* namespace reference rewritten to the reserved constant.
C7_CloneSkipsNamespaceHotAdd ==
  (netLast.op = "setup" /\ netLast.isClone)
  => /\ CallsOf("provider", {"GetNamespaceByID"}) = {}
     /\ CallsOf("guest", {"AddNetNSRaw"}) = {}
     /\ ReachedEndpointHotAdd =>
          /\ Cardinality(CallsOf("guest", {"AddEndpointsToNS"})) = 1
          /\ \A i \in CallsOf("guest", {"AddEndpointsToNS"}) :
               /\ netLast.calls[i].nsid = CLONING_DEFAULT_NETWORK_NAMESPACE_ID
               /\ Len(netLast.calls[i].eps) = Len(hnsNamespaces[netLast.nsid].endpoints)
               /\ \A j \in DOMAIN netLast.calls[i].eps :
                    /\ netLast.calls[i].eps[j].Id = hnsNamespaces[netLast.nsid].endpoints[j]
                    /\ netLast.calls[i].eps[j].Namespace = CLONING_DEFAULT_NETWORK_NAMESPACE_ID

C7_Witness ==
  /\ netLast.op = "setup" /\ netLast.isClone /\ ~netLast.isTemplate
  /\ netLast.err = ""
  /\ \E i \in CallsOf("guest", {"AddEndpointsToNS"}) :
       /\ Len(netLast.calls[i].eps) >= 1
       /\ netLast.calls[i].eps[1].Namespace = CLONING_DEFAULT_NETWORK_NAMESPACE_ID
       /\ hnsEndpoints[netLast.calls[i].eps[1].Id] # CLONING_DEFAULT_NETWORK_NAMESPACE_ID

\* C8: a setup for an ordinary guest rewrites nothing: the namespace object is
\* hot-added with the id the provider returned, the endpoints are hot-added as
\* the provider holds them, and the endpoint hot-add and a cleanup removal use
\* the real namespace id.
C8_OrdinaryGuestNoRewriting ==
  (netLast.op = "setup" /\ ~netLast.isTemplate /\ ~netLast.isClone)
  => /\ \A i \in GuestCalls : netLast.calls[i].nsid = netLast.nsid
     /\ \A i \in CallsOf("guest", {"AddEndpointsToNS"}) :
          netLast.calls[i].eps = ProviderEndpoints(netLast.nsid)
     /\ netLast.err \notin {"GetNamespaceEndpoints", "GetHNSEndpointByID", "GetNamespaceByID"}
          => Cardinality(CallsOf("guest", {"AddNetNSRaw"})) = 1
     /\ ReachedEndpointHotAdd => Cardinality(CallsOf("guest", {"AddEndpointsToNS"})) = 1

C8_Witness ==
  /\ netLast.op = "setup" /\ ~netLast.isTemplate /\ ~netLast.isClone
  /\ netLast.fail = "AddEndpointsToNS"
  /\ CallsOf("guest", {"AddNetNSRaw"}) # {}
  /\ CallsOf("guest", {"RemoveNetNS"}) # {}
  /\ \E i \in CallsOf("guest", {"AddEndpointsToNS"}) :
       /\ Len(netLast.calls[i].eps) = MaxEndpoints
       /\ netLast.calls[i].eps[1].Namespace = netLast.nsid
       /\ netLast.calls[i].nsid = netLast.nsid

\* C9: when the endpoint hot-add fails, exactly one removal of the namespace at
\* the guest-visible id is attempted and the hot-add error is returned whether
\* the removal succeeds or fails; when the hot-add succeeds no removal is
\* attempted and the call returns success.
C9_CleanupKeepsHotAddError ==
  (netLast.op = "setup" /\ CallsOf("guest", {"AddEndpointsToNS"}) # {})
  => LET removals == CallsOf("guest", {"RemoveNetNS"})
         visible  == IF netLast.isTemplate \/ netLast.isClone
                     THEN CLONING_DEFAULT_NETWORK_NAMESPACE_ID ELSE netLast.nsid
     IN IF netLast.fail = "AddEndpointsToNS"
        THEN /\ Cardinality(removals) = 1
             /\ \A i \in removals :
                  /\ netLast.calls[i].nsid = visible
                  /\ i = Len(netLast.calls)
                  /\ netLast.calls[i - 1].op = "AddEndpointsToNS"
             /\ netLast.err = "AddEndpointsToNS"
        ELSE removals = {} /\ netLast.err = ""

C9_Witness ==
  /\ netLast.op = "setup" /\ netLast.isTemplate
  /\ netLast.fail = "AddEndpointsToNS"
  /\ netLast.warned
  /\ netLast.err = "AddEndpointsToNS"
  /\ CallsOf("guest", {"RemoveNetNS"}) # {}

\* ------------------------------------------------ claims on the lifecycle

\* C10: saveAsTemplate calls detach all NICs, close the control channel,
\* capture and persist the config, pause, save, in that order: a step is called
\* only after every earlier step has succeeded, none is called twice, and the
\* run returns success only if all five steps succeeded.
C10_StepsInOrder ==
  /\ Len(steps) <= Len(Steps)
  /\ \A i \in DOMAIN steps :
       /\ steps[i].step = Steps[i]
       /\ i < Len(steps) => ~steps[i].failed
  /\ pc # "idle" =>
       /\ pc = Steps[Len(steps) + 1]
       /\ \A i \in DOMAIN steps : ~steps[i].failed
  /\ ret = "ok" =>
       /\ Len(steps) = Len(Steps)
       /\ \A i \in DOMAIN steps : ~steps[i].failed

C10_Witness ==
  /\ ret = "ok"
  /\ pc = "idle"
  /\ Len(steps) = Len(Steps)
  /\ host.state = "Saved" /\ host.nics = 0 /\ ~host.gcs
  /\ registry[host.id].present

\* Whether sub is what is left of seq when some of its elements are dropped.
RECURSIVE IsSubsequence(_, _)
IsSubsequence(sub, seq) ==
  IF sub = <<>> THEN TRUE
  ELSE IF seq = <<>> THEN FALSE
  ELSE IF Head(sub) = Head(seq) THEN IsSubsequence(Tail(sub), Tail(seq))
  ELSE IsSubsequence(sub, Tail(seq))

\* The guest's attachment slots: the shares in slot order, then the mounts.
AttachmentSlots(uvm) ==
  uvm.vsmbDirShares \o uvm.vsmbFileShares \o Flatten(uvm.scsiLocations)

NonEmptySlots(uvm) ==
  {i \in DOMAIN AttachmentSlots(uvm) : AttachmentSlots(uvm)[i] # Nil}

C12_CloneContainerNeedsChannel ==
  attach.id # "" =>
    IF ~attach.gc
    THEN /\ attach.err = "clone container cannot work without external GCS connection"
         /\ attach.requests = <<>>
         /\ attach.container = NoContainer
    ELSE /\ attach.requests = <<attach.id>>
         /\ attach.gcErr = "" =>
              attach.err = "" /\ attach.container = ChannelContainer(attach.id)
         /\ attach.gcErr # "" =>
              /\ attach.err # ""
              /\ attach.errID = attach.id /\ attach.cause = attach.gcErr
              /\ attach.container = NoContainer

C12_Witness ==
  /\ attach.id # "" /\ ~attach.gc /\ attach.requests = <<>> /\ attach.err # ""
  /\ ~host.gcs

\* C13: Store dispatches on record.stored: false is a create, which fails and
\* leaves the persisted record unchanged when one exists; true is an update
\* that overwrites. On success the record's stored is true, on failure it keeps
\* its value.
C13_StoreDispatchesOnStored ==
  unit.op = "Store" =>
    LET id == unit.id
        b  == unit.before.puc
        a  == unit.after.puc
    IN /\ ~b.Stored =>
            IF unit.was.present
            THEN unit.err # "" /\ registry[id] = unit.was
            ELSE unit.err = "" /\ registry[id].present /\ registry[id].RawData = b.RawData
       /\ b.Stored =>
            unit.err = "" /\ registry[id].present /\ registry[id].RawData = b.RawData
       /\ unit.err = "" => a.Stored
       /\ unit.err # "" => a.Stored = b.Stored
       /\ a.RawData = b.RawData

C13_Witness ==
  /\ unit.op = "Store" /\ ~unit.before.puc.Stored /\ unit.was.present
  /\ unit.err = "AlreadyExists" /\ ~unit.after.puc.Stored
  /\ unit.was.RawData # unit.before.puc.RawData
  /\ \E id \in IDs \ {unit.id} : held[id].has /\ held[id].puc.Stored /\ held[id].from = "store"

\* C14: once a Store for an id has succeeded, the record passed to Store and
\* every record later returned by Load of that id has stored true, and a later
\* Store of such a record does not fail with "already exists".
C14_StoredMarkerMonotonic ==
  /\ (unit.op \in {"Load", "Store"} /\ unit.err = "" /\ unit.id \in succeeded) =>
       unit.after.puc.Stored
  /\ (unit.op = "Store" /\ unit.before.from \in {"load", "store"} /\ unit.was.present) =>
       unit.err # "AlreadyExists"

\* C15: when a step of saveAsTemplate fails the call returns that step's error,
\* no later step is invoked and no earlier step is undone: the NICs stay
\* detached, the control channel stays closed, and after a failure in pause or
\* save the template record persisted by the config step is still in the store.
C15_FailedStepAborts ==
  [][(pc # "idle" /\ pc' = "idle" /\ ret' # "ok") =>
       /\ ret' = "err"
       /\ steps' = Append(steps, Step(pc, TRUE))
       /\ host' = host
       /\ registry' = registry
       /\ pc # "RemoveAllNICs" => host'.nics = 0
       /\ pc \in {"SaveTemplateConfig", "Pause", "Save"} => ~host'.gcs
       /\ pc \in {"Pause", "Save"} => registry'[host.id].present]_vars

\* The callers whose SaveTemplateConfig returned nil.
Succeeded == {i \in Callers : conc.id # "" /\ conc.callers[i].ret = "ok"}

\* C18: of two concurrent SaveTemplateConfig calls for a guest id without a
\* record at most one returns success, under every interleaving of their load,
\* encode and store steps, and the persisted record is the one the successful
\* call wrote; no record is persisted while no call has succeeded.
C18_ConcurrentSavesOneWinner ==
  conc.id # "" =>
    /\ Cardinality(Succeeded) <= 1
    /\ \A i \in Succeeded :
         /\ registry[conc.id].present
         /\ registry[conc.id].RawData = conc.callers[i].puc.RawData
         /\ registry[conc.id].RawData = encodeTemplateConfig(conc.callers[i].utc).bytes
    /\ Succeeded = {} => ~registry[conc.id].present

C18_Witness ==
  /\ conc.id # ""
  /\ \A i \in Callers : conc.callers[i].at = "done"
  /\ \E i \in Callers, j \in Callers :
       /\ conc.callers[i].ret = "ok"
       /\ conc.callers[j].ret = "err" /\ conc.callers[j].err = "AlreadyExists"
       /\ conc.callers[j].puc.RawData # conc.callers[i].puc.RawData
       /\ registry[conc.id].RawData = conc.callers[i].puc.RawData

\* ------------------------------------- further claims on the network setup

\* The calls of the last setup made on the provider.
ProviderCalls ==
  CallsOf("provider", {"GetNamespaceEndpoints", "GetHNSEndpointByID", "GetNamespaceByID"})

\* C17 as stated: a setup with isTemplate and isClone both true returns an
\* error and issues no call on the guest.
C17_BothFlagsRejected ==
  (netLast.op = "setup" /\ netLast.isTemplate /\ netLast.isClone)
  => netLast.err # "" /\ GuestCalls = {}

\* C17 as the code has it: a setup with isTemplate and isClone both true is not
\* rejected; it runs as for a clone: no namespace lookup by id, no namespace
\* hot-add, and unless a provider query or the endpoint hot-add fails it
\* returns nil after one endpoint hot-add under the reserved constant with every
\* namespace reference rewritten. It fails only with a provider or guest error.
C17_BothFlagsRunAsClone ==
  (netLast.op = "setup" /\ netLast.isTemplate /\ netLast.isClone)
  => /\ CallsOf("provider", {"GetNamespaceByID"}) = {}
     /\ CallsOf("guest", {"AddNetNSRaw"}) = {}
     /\ netLast.err \in {"", "GetNamespaceEndpoints", "GetHNSEndpointByID", "AddEndpointsToNS"}
     /\ netLast.err # "" => (netLast.fail = netLast.err \/ ~hnsNamespaces[netLast.nsid].present)
     /\ netLast.err = "" =>
          /\ Cardinality(CallsOf("guest", {"AddEndpointsToNS"})) = 1
          /\ GuestCalls = CallsOf("guest", {"AddEndpointsToNS"})
          /\ \A i \in GuestCalls :
               /\ netLast.calls[i].nsid = CLONING_DEFAULT_NETWORK_NAMESPACE_ID
               /\ Len(netLast.calls[i].eps) = Len(hnsNamespaces[netLast.nsid].endpoints)
               /\ \A j \in DOMAIN netLast.calls[i].eps :
                    netLast.calls[i].eps[j].Namespace = CLONING_DEFAULT_NETWORK_NAMESPACE_ID
     /\ (hnsNamespaces[netLast.nsid].present
         /\ netLast.fail \in {"none", "GetNamespaceByID", "AddNetNSRaw"}) => netLast.err = ""

C17_Witness ==
  /\ netLast.op = "setup" /\ netLast.isTemplate /\ netLast.isClone
  /\ netLast.fail = "AddNetNSRaw"
  /\ netLast.err = ""
  /\ \E i \in CallsOf("guest", {"AddEndpointsToNS"}) : Len(netLast.calls[i].eps) >= 1

\* C19: guest calls are issued only after the provider lookups have succeeded:
\* when the endpoint query or the namespace-by-id query fails that error is
\* returned and no guest call has been made; when the namespace hot-add fails
\* that error is returned and neither the endpoint hot-add nor a namespace
\* removal is attempted; a removal happens only after a failed endpoint hot-add.
C19_GuestCallsAfterLookups ==
  netLast.op = "setup"
  => /\ \A i \in GuestCalls : \A j \in ProviderCalls : j < i
     /\ (netLast.fail = "GetNamespaceEndpoints" \/ ~hnsNamespaces[netLast.nsid].present)
          => netLast.err = "GetNamespaceEndpoints"
     /\ (netLast.fail = "GetHNSEndpointByID" /\ hnsNamespaces[netLast.nsid].present
         /\ hnsNamespaces[netLast.nsid].endpoints # <<>>)
          => netLast.err = "GetHNSEndpointByID"
     /\ (netLast.fail = "GetNamespaceByID" /\ hnsNamespaces[netLast.nsid].present
         /\ ~netLast.isClone)
          => netLast.err = "GetNamespaceByID"
     /\ netLast.err \in {"GetNamespaceEndpoints", "GetHNSEndpointByID", "GetNamespaceByID"}
          => GuestCalls = {}
     /\ (netLast.fail = "AddNetNSRaw" /\ hnsNamespaces[netLast.nsid].present
         /\ ~netLast.isClone)
          => netLast.err = "AddNetNSRaw"
     /\ netLast.err = "AddNetNSRaw"
          => /\ CallsOf("guest", {"AddEndpointsToNS", "RemoveNetNS"}) = {}
             /\ Cardinality(CallsOf("guest", {"AddNetNSRaw"})) = 1
     /\ CallsOf("guest", {"RemoveNetNS"}) # {} => netLast.err = "AddEndpointsToNS"

C19_Witness ==
  /\ netLast.op = "setup" /\ ~netLast.isClone /\ netLast.isTemplate
  /\ netLast.fail = "AddNetNSRaw" /\ netLast.err = "AddNetNSRaw"
  /\ hnsNamespaces[netLast.nsid].endpoints # <<>>
  /\ Len(netLast.calls) = 3
  /\ GuestCalls = {3}

\* ------------------------------------------- further claims on the lifecycle

\* C20: while a template record is persisted for the guest's id, a
\* saveAsTemplate run that comes to the config step fails there and leaves the
\* record as it is, so it reaches neither pause nor save; the pause step is
\* entered only by a config step that has just created the record, and the save
\* step only by that run's pause: both are attempted at most once per persisted
\* record, until RemoveSavedTemplateConfig removes it.
C20_RetryBlockedUntilRemove ==
  [][/\ (pc = "SaveTemplateConfig" /\ registry[host.id].present) =>
          /\ pc' = "idle" /\ ret' \in {"err", "panic"}
          /\ steps'[Len(steps')] = Step("SaveTemplateConfig", TRUE)
          /\ registry' = registry
     /\ (pc # "Pause" /\ pc' = "Pause") =>
          /\ pc = "SaveTemplateConfig"
          /\ ~registry[host.id].present /\ registry'[host.id].present
     /\ (pc # "Save" /\ pc' = "Save") =>
          pc = "Pause" /\ registry[host.id].present
     /\ (pc \in {"Pause", "Save"} /\ pc' # pc) => pc' \in {"idle", "Save"} \ {pc}
    ]_vars

C20_Witness ==
  /\ runs = 2 /\ pc = "idle" /\ ret = "panic"
  /\ Len(steps) = 3 /\ steps[3] = Step("SaveTemplateConfig", TRUE)
  /\ registry[host.id].present
  /\ host.state \in {"Running", "Paused"}
  /\ host.nics = 0 /\ ~host.gcs

====
